---- MODULE Spec2Model ----
(***************************************************************************)
(* The graph engine behind Introduction_to_Networks_clean.ipynb: the       *)
(* notebook builds an undirected networkx Graph from an edge list          *)
(* (G = nx.Graph(); G.add_edges_from(network)) and then calls the library  *)
(* routines nx.density, G.degree, nx.shortest_path,                        *)
(* nx.average_shortest_path_length, nx.degree_centrality,                  *)
(* nx.closeness_centrality, nx.betweenness_centrality, nx.find_cliques and *)
(* community.best_partition on it.  Each definition below is the           *)
(* behaviour of the routine the named notebook line calls.                 *)
(*                                                                         *)
(* Iteration order: a dict or a set of nodes iterates in the order of its  *)
(* hash table, which depends on the ids and on how the container was       *)
(* built; two containers of one graph need not agree.  No order is derived *)
(* from the ids of the nodes here.  Wherever the code iterates a container *)
(* of nodes, or pops from a set of nodes, the order is an argument of the  *)
(* operator (order, first, nbr, keys) that the action draws from every     *)
(* enumeration of the container, or the operator is the set of the         *)
(* outcomes of every order (find_cliques,                                  *)
(* single_source_shortest_path_basic).  The order of a dict keyed by       *)
(* community numbers is computed from the hash table CPython 2 keeps, for  *)
(* every order of insertion: TableOrders.                                  *)
(*                                                                         *)
(* Real numbers: the centralities and the choice of the best community    *)
(* are computed in the arithmetic of the doubles, float_*, every operation *)
(* rounded as the code rounds it.  A result that is one quotient of two    *)
(* whole numbers (the density, the average path length) is kept as the     *)
(* fraction [num, den] the quotient is of.  Where the code compares a sum  *)
(* of floats with a threshold (the gain of modularity with __MIN), a       *)
(* difference within the rounding errors of the threshold can be found     *)
(* either way.                                                             *)
(***************************************************************************)
EXTENDS Integers, Sequences, FiniteSets, TLC

\* Node identifiers are 1..MaxNode.
MaxNode == 4
\* At most MaxCalls pairs are loaded from the edge list.
MaxCalls == 4

\* The community detection runs are checked on graphs of up to WideNode
\* nodes loaded from up to WideCalls pairs, each edge named once: enough
\* for a graph whose dendrogram has two levels.
WideNode == 4
WideCalls == 6

\* The centralities are run on graphs of up to CentralNode nodes loaded by
\* up to CentralCalls pairs: the smallest graphs whose scores the rounding
\* of the doubles shows in have five and six nodes.
CentralNode == 6
CentralCalls == 4

Node == 1..MaxNode
WideNodes == 1..WideNode
CentralNodes == 1..CentralNode

VARIABLES adj, calls, last
vars == <<adj, calls, last>>

----------------------------------------------------------------------------
\* Generic helpers

\* sum(f[x] for x in S)
SumOver(f, S) ==
  LET sum[T \in SUBSET S] ==
        IF T = {} THEN 0
        ELSE LET x == CHOOSE y \in T : TRUE IN f[x] + sum[T \ {x}]
  IN sum[S]

\* The least element of a set of integers.
Min(S) == CHOOSE x \in S : \A y \in S : x <= y

Range(s) == {s[i] : i \in 1..Len(s)}

\* Every order in which a container holding the elements S can iterate.
Orders(S) ==
  LET ord[T \in SUBSET S] ==
        IF T = {} THEN {<<>>}
        ELSE UNION {{<<x>> \o s : s \in ord[T \ {x}]} : x \in T}
  IN ord[S]

RECURSIVE neighbour_orders(_, _)
neighbour_orders(a, todo) ==
  IF todo = {} THEN {<<>>}
  ELSE LET v == CHOOSE x \in todo : TRUE
       IN {(v :> s) @@ f : s \in Orders(a[v]), f \in neighbour_orders(a, todo \ {v})}

\* Every way the neighbour dicts G[v] of a graph can iterate: a function
\* from each node to an enumeration of its neighbours.
NeighbourOrders(a) == neighbour_orders(a, DOMAIN a)

\* hash(key) of an integer key.
hash(key) == IF key = -1 THEN -2 ELSE key

\* The number of slots of the hash table of a dict after n keys have been
\* inserted into it, none removed: 8 slots to start with, and the insertion
\* that leaves two thirds of the slots in use, the one of key number i,
\* has the table rebuilt with the first power of two above 4 i slots (2 i
\* beyond 50000 keys): 32 slots at the 6th key, 128 at the 22nd.
dict_size[n \in Nat] ==
  LET size[slots \in Nat] ==
        IF 3 * n < 2 * slots THEN slots
        ELSE LET i       == (2 * slots + 2) \div 3
                 minused == (IF i > 50000 THEN 2 ELSE 4) * i
             IN size[CHOOSE newsize \in {2 ^ e : e \in 3..30} :
                       newsize > minused /\ newsize \div 2 <= minused]
  IN size[8]

RECURSIVE dict_probe(_, _, _, _, _)
\* The slot a key is stored at (lookdict): slot i if it is free, else the
\* next of the probe sequence i = 5 i + perturb + 1, perturb >>= 5.  perturb
\* is the hash as an unsigned word of 64 binary digits: a negative hash
\* stands for 2^64 more, which shifts times 5 digits to the right leave as
\* 2^(64 - 5 shifts) more, a multiple of the size while shifts < 7, and
\* nothing is left of it after 13 shifts.
dict_probe(table, size, i, perturb, shifts) ==
  IF i % size \notin DOMAIN table THEN i % size
  ELSE LET word == IF perturb >= 0 THEN perturb
                   ELSE IF shifts >= 13 THEN 0
                   ELSE IF shifts >= 7 THEN perturb + 2 ^ (64 - 5 * shifts)
                   ELSE perturb
       IN dict_probe(table, size, 5 * (i % size) + (word % size) + 1,
                     perturb \div 32, shifts + 1)

\* insertdict: the key stored in the table of size slots, slot -> key.
dict_store(table, size, key) ==
  table @@ (dict_probe(table, size, hash(key), hash(key), 0) :> key)

\* The keys of the sequence keys stored one after the other in a table of
\* size slots (each table is bound to prev once it is built).
dict_fill(table, size, keys) ==
  LET filled[n \in 0..Len(keys)] ==
        IF n = 0 THEN table
        ELSE CHOOSE next \in {dict_store(prev, size, keys[n]) :
                                prev \in {filled[n - 1]}} : TRUE
  IN filled[Len(keys)]

\* The keys of a table in the order of their slots: the order in which the
\* dict iterates.
dict_keys(table) ==
  LET slots == DOMAIN table
  IN [i \in 1..Cardinality(slots) |->
        table[CHOOSE slot \in slots :
                Cardinality({below \in slots : below < slot}) = i - 1]]

\* PyDict_SetItem for key number n of a dict whose table is table: the key
\* is stored, and a table that has to grow is rebuilt from its keys in the
\* order of their slots (dictresize).
dict_insert(table, n, key) ==
  LET added == dict_store(table, dict_size[n - 1], key)
  IN IF dict_size[n] = dict_size[n - 1] THEN added
     ELSE dict_fill(<< >>, dict_size[n], dict_keys(added))

\* The table of a dict into which the keys of the sequence inserted have
\* been inserted in turn.
dict_table(inserted) ==
  LET table[n \in 0..Len(inserted)] ==
        IF n = 0 THEN << >>
        ELSE CHOOSE next \in {dict_insert(prev, n, inserted[n]) :
                                prev \in {table[n - 1]}} : TRUE
  IN table[Len(inserted)]

\* Every order in which a dict with the integer keys S can iterate, the
\* keys having been inserted in some order and none removed (the nodes of
\* an induced graph, the keys of neigh_communities, of the node2com of a
\* later level).  When no two keys share a slot of the table, every key sits
\* at its own slot however the dict was built, and the order is the one of
\* the slots: the community numbers 0..k-1 come out ascending.  Keys that
\* share a slot come out in an order that depends on the insertions.
TableOrders(S) ==
  LET size    == dict_size[Cardinality(S)]
      slot(k) == hash(k) % size
  IN IF \A j, k \in S : j # k => slot(j) # slot(k)
     THEN {dict_keys([i \in {slot(k) : k \in S} |->
                        CHOOSE k \in S : slot(k) = i])}
     ELSE {dict_keys(dict_table(inserted)) : inserted \in Orders(S)}

\* The quotient n / d of two whole numbers, as the fraction it is of.
Frac(n, d) == [num |-> n, den |-> d]

----------------------------------------------------------------------------
\* Floats: IEEE 754 doubles, every operation rounded to 53 binary digits,
\* to nearest and to even on a tie.  A mantissa is a natural number of any
\* size, the sequence of its digits in base 2^15, the least significant
\* first, without leading zero digits.  Overflow, underflow and the sign of
\* zero play no part in the routines below and are left out.

Limbs == Seq(0..32767)

\* a without its leading zero digits
limb_trim[a \in Limbs] ==
  LET top[i \in 0..Len(a)] == IF i = 0 \/ a[i] # 0 THEN i ELSE top[i - 1]
  IN SubSeq(a, 1, top[Len(a)])

\* a + b
limb_add[a \in Limbs, b \in Limbs] ==
  LET n == IF Len(a) >= Len(b) THEN Len(a) ELSE Len(b)
      at(s, i) == IF i <= Len(s) THEN s[i] ELSE 0
      carry[i \in 0..n] ==
        IF i = 0 THEN 0 ELSE (at(a, i) + at(b, i) + carry[i - 1]) \div 32768
  IN limb_trim[[i \in 1..(n + 1) |-> (at(a, i) + at(b, i) + carry[i - 1]) % 32768]]

\* a - b for a >= b
limb_sub[a \in Limbs, b \in Limbs] ==
  LET at(s, i) == IF i <= Len(s) THEN s[i] ELSE 0
      borrow[i \in 0..Len(a)] ==
        IF i = 0 THEN 0
        ELSE IF a[i] - at(b, i) - borrow[i - 1] < 0 THEN 1 ELSE 0
  IN limb_trim[[i \in 1..Len(a) |-> (a[i] - at(b, i) - borrow[i - 1]) % 32768]]

\* -1, 0, 1 as a < b, a = b, a > b
limb_cmp[a \in Limbs, b \in Limbs] ==
  IF Len(a) # Len(b) THEN (IF Len(a) < Len(b) THEN -1 ELSE 1)
  ELSE LET c[i \in 0..Len(a)] ==
             IF i = 0 THEN 0
             ELSE IF a[i] < b[i] THEN -1
             ELSE IF a[i] > b[i] THEN 1
             ELSE c[i - 1]
       IN c[Len(a)]

\* a * k for 0 <= k < 2^16
limb_mul_small[a \in Limbs, k \in Nat] ==
  LET carry[i \in 0..Len(a)] ==
        IF i = 0 THEN 0 ELSE (a[i] * k + carry[i - 1]) \div 32768
  IN limb_trim[[i \in 1..(Len(a) + 2) |->
                  IF i <= Len(a) THEN (a[i] * k + carry[i - 1]) % 32768
                  ELSE IF i = Len(a) + 1 THEN carry[Len(a)] % 32768
                  ELSE carry[Len(a)] \div 32768]]

\* a * 2^k
limb_shl[a \in Limbs, k \in Nat] ==
  IF a = <<>> THEN <<>>
  ELSE [i \in 1..(k \div 15) |-> 0] \o limb_mul_small[a, 2 ^ (k % 15)]

\* a * b
limb_mul[a \in Limbs, b \in Limbs] ==
  LET acc[i \in 0..Len(b)] ==
        IF i = 0 THEN <<>>
        ELSE limb_add[acc[i - 1],
                      [j \in 1..(i - 1) |-> 0] \o limb_mul_small[a, b[i]]]
  IN limb_trim[acc[Len(b)]]

\* a divided by d, 0 < d <= 2^16: the quotient q and the remainder r
limb_div_small[a \in Limbs, d \in Nat] ==
  LET r[j \in 1..(Len(a) + 1)] ==
        IF j = Len(a) + 1 THEN 0 ELSE (r[j + 1] * 32768 + a[j]) % d
  IN [q |-> limb_trim[[i \in 1..Len(a) |-> (r[i + 1] * 32768 + a[i]) \div d]],
      r |-> r[1]]

\* the number of binary digits of a
limb_bits[a \in Limbs] ==
  IF a = <<>> THEN 0
  ELSE 15 * (Len(a) - 1)
         + (CHOOSE b \in 1..15 : 2 ^ (b - 1) <= a[Len(a)] /\ a[Len(a)] < 2 ^ b)

\* a with its k low binary digits dropped, and whether any of them was 1
limb_shr[a \in Limbs, k \in Nat] ==
  LET whole == k \div 15
      d     == limb_div_small[SubSeq(a, whole + 1, Len(a)), 2 ^ (k % 15)]
  IN [q |-> d.q,
      sticky |-> d.r # 0 \/ \E i \in 1..whole : i <= Len(a) /\ a[i] # 0]

\* the digits of the integer n >= 0
limb_of[n \in Nat] ==
  limb_trim[<<n % 32768, (n \div 32768) % 32768, n \div (32768 * 32768)>>]

\* A quotient q and a remainder r.
LimbPairs == [q : Limbs, r : Limbs]

\* d + bit when b * (d + bit) <= r, else d: one step of the search for a
\* digit of a quotient
limb_digit_step[b \in Limbs, r \in Limbs, d \in Nat, bit \in Nat] ==
  IF limb_cmp[limb_mul_small[b, d + bit], r] <= 0 THEN d + bit ELSE d

\* the whole part of r / b, for r < 32768 b
limb_digit[b \in Limbs, r \in Limbs] ==
  LET d[j \in 0..15] ==
        IF j = 0 THEN 0 ELSE limb_digit_step[b, r, d[j - 1], 2 ^ (15 - j)]
  IN d[15]

\* the remainder after the digit d of the quotient
limb_div_digit[b \in Limbs, q \in Limbs, r \in Limbs, d \in Nat] ==
  [q |-> <<d>> \o q, r |-> limb_sub[r, limb_mul_small[b, d]]]

\* one step of the long division by b: the digit x of the dividend is
\* brought down to the remainder
limb_div_step[b \in Limbs, st \in LimbPairs, x \in Nat] ==
  limb_div_digit[b, st.q, limb_trim[<<x>> \o st.r],
                 limb_digit[b, limb_trim[<<x>> \o st.r]]]

\* st with q without its leading zero digits
limb_pair_trim[st \in LimbPairs] == [q |-> limb_trim[st.q], r |-> st.r]

\* A quotient q and a remainder r below 2^16.
LimbSmallPairs == [q : Limbs, r : Nat]

\* the quotient and the remainder of limb_div_small as digits
limb_pair_small[d \in LimbSmallPairs] == [q |-> d.q, r |-> limb_of[d.r]]

\* a divided by b > 0: the quotient q and the remainder r
limb_divmod[a \in Limbs, b \in Limbs] ==
  IF Len(b) = 1 THEN limb_pair_small[limb_div_small[a, b[1]]]
  ELSE LET step[i \in 0..Len(a)] ==
             IF i = 0 THEN [q |-> <<>>, r |-> <<>>]
             ELSE limb_div_step[b, step[i - 1], a[Len(a) + 1 - i]]
       IN limb_pair_trim[step[Len(a)]]

\* n with its k > 0 low binary digits dropped, rounded to nearest and to
\* even on a tie; sticky: a fraction beyond the digits of n is not zero
limb_round[n \in Limbs, k \in Nat, sticky \in BOOLEAN] ==
  LET t  == limb_shr[n, k - 1]
      q  == limb_div_small[t.q, 2].q
      up == t.q[1] % 2 = 1 /\ (sticky \/ t.sticky \/ q[1] % 2 = 1)
  IN IF up THEN limb_add[q, <<1>>] ELSE q

\* A float is sign * man * 2^exp with man odd; zero has sign 0.
Floats == [sign : -1..1, man : Limbs, exp : Int]

float_zero == [sign |-> 0, man |-> <<>>, exp |-> 0]

\* the float sign * n * 2^exp, n of at most 53 binary digits
float_exact[sign \in -1..1, n \in Limbs, exp \in Int] ==
  IF n = <<>> THEN float_zero
  ELSE LET whole == CHOOSE i \in 0..(Len(n) - 1) :
                      n[i + 1] # 0 /\ \A j \in 1..i : n[j] = 0
           part  == CHOOSE b \in 0..14 : n[whole + 1] % (2 ^ (b + 1)) = 2 ^ b
       IN [sign |-> sign,
           man  |-> limb_div_small[SubSeq(n, whole + 1, Len(n)), 2 ^ part].q,
           exp  |-> exp + 15 * whole + part]

\* sign * (n and a fraction, not zero when sticky) * 2^exp rounded to 53
\* binary digits
float_round[sign \in -1..1, n \in Limbs, exp \in Int, sticky \in BOOLEAN] ==
  LET bits == limb_bits[n]
  IN IF bits <= 53 THEN float_exact[sign, n, exp]
     ELSE float_exact[sign, limb_round[n, bits - 53, sticky], exp + bits - 53]

\* float(n) for an integer n
float_of[n \in Int] ==
  IF n = 0 THEN float_zero
  ELSE float_exact[IF n < 0 THEN -1 ELSE 1, limb_of[IF n < 0 THEN -n ELSE n], 0]

\* -a
float_neg[a \in Floats] == [a EXCEPT !.sign = -@]

\* a * b
float_mul[a \in Floats, b \in Floats] ==
  float_round[a.sign * b.sign, limb_mul[a.man, b.man], a.exp + b.exp, FALSE]

\* the round of sign * (q and a fraction, not zero when r is not) * 2^exp
float_quotient[sign \in -1..1, d \in LimbPairs, exp \in Int] ==
  float_round[sign, d.q, exp, d.r # <<>>]

\* a / b for b not zero: the quotient of a.man * 2^110 by b.man has more
\* than 53 binary digits.
float_div[a \in Floats, b \in Floats] ==
  float_quotient[a.sign * b.sign, limb_divmod[limb_shl[a.man, 110], b.man],
                 a.exp - b.exp - 110]

\* a + b
float_add[a \in Floats, b \in Floats] ==
  IF a.sign = 0 THEN b
  ELSE IF b.sign = 0 THEN a
  ELSE LET exp == IF a.exp <= b.exp THEN a.exp ELSE b.exp
           x1  == limb_shl[a.man, a.exp - exp]
           y1  == limb_shl[b.man, b.exp - exp]
           c   == limb_cmp[x1, y1]
       IN IF a.sign = b.sign
          THEN float_round[a.sign, limb_add[x1, y1], exp, FALSE]
          ELSE IF c = 0 THEN float_zero
          ELSE IF c > 0 THEN float_round[a.sign, limb_sub[x1, y1], exp, FALSE]
          ELSE float_round[b.sign, limb_sub[y1, x1], exp, FALSE]

\* a - b
float_sub[a \in Floats, b \in Floats] == float_add[a, float_neg[b]]

\* a < b
float_lt[a \in Floats, b \in Floats] == float_sub[a, b].sign < 0

----------------------------------------------------------------------------
\* Graph store: nx.Graph, adjacency as a dict of neighbour sets (G.adj).

\* nx.Graph(): no nodes, no edges.
EmptyGraph == [n \in {} |-> {}]

\* A plausible slip: the reverse adjacency entry adj[v][u] is not written.
add_edge_oneway(a, u, v) ==
  [n \in DOMAIN a \cup {u, v} |->
     (IF n \in DOMAIN a THEN a[n] ELSE {}) \cup (IF n = u THEN {v} ELSE {})]

\* A plausible slip: the "if u not in self.node" tests are dropped, so the
\* adjacency dicts of u and v are created afresh on every call.
add_edge_reinit(a, u, v) ==
  [n \in DOMAIN a \cup {u, v} |->
     IF n \in {u, v}
     THEN (IF n = u THEN {v} ELSE {}) \cup (IF n = v THEN {u} ELSE {})
     ELSE a[n]]

\* Graph.add_edge(u, v): creates u and v when absent, then sets adj[u][v] and
\* adj[v][u].  There is no test of u = v: a self-loop is stored as adj[u][u].
add_edge(a, u, v) ==
  [n \in DOMAIN a \cup {u, v} |->
     (IF n \in DOMAIN a THEN a[n] ELSE {})
       \cup (IF n = u THEN {v} ELSE {})
       \cup (IF n = v THEN {u} ELSE {})]

RECURSIVE add_edges_from(_, _)
\* Graph.add_edges_from(ebunch): add_edge for each pair, in list order.
add_edges_from(a, ebunch) ==
  IF ebunch = <<>> THEN a
  ELSE add_edges_from(add_edge(a, Head(ebunch)[1], Head(ebunch)[2]), Tail(ebunch))

\* G.nodes()
nodes(a) == DOMAIN a

\* G.neighbors(u), for u in G
neighbors(a, u) == a[u]

\* A plausible slip: the lookup of a defaultdict (or self.adj.setdefault(n,
\* {})), which enters a missing key with an empty value.
getitem_setdefault(a, n) ==
  IF n \in DOMAIN a THEN [err |-> "none", adj |-> a, value |-> a[n]]
  ELSE [err |-> "none", value |-> {},
        adj |-> [x \in DOMAIN a \cup {n} |-> IF x = n THEN {} ELSE a[x]]]

\* self.adj[n], dict.__getitem__: the value at n, KeyError when n is no
\* key; adj is the dict after the lookup, as it was before.
getitem(a, n) ==
  IF n \in DOMAIN a THEN [err |-> "none", adj |-> a, value |-> a[n]]
  ELSE [err |-> "KeyError", adj |-> a]

\* G.has_edge(u, v)
has_edge(a, u, v) == u \in DOMAIN a /\ v \in a[u]

\* G.degree(u): len(adj[u]) plus one more when u is its own neighbour.
degree(a, u) == Cardinality(a[u]) + (IF u \in a[u] THEN 1 ELSE 0)

\* G.degree(): the mapping node -> degree.
degree_map(a) == [u \in DOMAIN a |-> degree(a, u)]

\* G.number_of_nodes(): len(adj)
number_of_nodes(a) == Cardinality(DOMAIN a)

\* A plausible slip: the degree sum is not halved.
number_of_edges_unhalved(a) == SumOver(degree_map(a), DOMAIN a)

\* G.number_of_edges() = G.size(): sum of the degrees, halved.
number_of_edges(a) == SumOver(degree_map(a), DOMAIN a) \div 2

\* nx.density(G): 0 when m = 0 or n <= 1, else 2m / (n(n-1)).
density(a) ==
  LET n == number_of_nodes(a)
      m == number_of_edges(a)
  IN IF m = 0 \/ n <= 1 THEN Frac(0, 1) ELSE Frac(2 * m, n * (n - 1))

----------------------------------------------------------------------------
\* Traversal: breadth-first search, components, shortest paths.

RECURSIVE plain_bfs_loop(_, _, _)
\* The while loop of _plain_bfs: every node of thislevel not yet seen is
\* yielded and its neighbours join nextlevel.
plain_bfs_loop(a, seen, nextlevel) ==
  IF nextlevel = {} THEN seen
  ELSE LET fresh == nextlevel \ seen
       IN plain_bfs_loop(a, seen \cup fresh, UNION {a[v] : v \in fresh})

\* A plausible slip: the search stops after the first level.
plain_bfs_onelevel(a, source) == {source} \cup a[source]

\* set(_plain_bfs(G, source)): the nodes a breadth-first search from source
\* yields.
plain_bfs(a, source) == plain_bfs_loop(a, {}, {source})

RECURSIVE components_loop(_, _, _)
\* for v in G: if v not in seen: c = set(_plain_bfs(G, v)); yield c;
\* seen.update(c)
components_loop(a, order, seen) ==
  IF order = <<>> THEN <<>>
  ELSE IF Head(order) \in seen THEN components_loop(a, Tail(order), seen)
  ELSE LET c == plain_bfs(a, Head(order))
       IN <<c>> \o components_loop(a, Tail(order), seen \cup c)

\* connected_components(): the component node sets, in order of discovery,
\* when G iterates its nodes in the given order.
connected_components(a, order) == components_loop(a, order, {})

\* nx.is_connected(G), for a graph with at least one node: the search from
\* the first node G iterates reaches len(G) nodes.
is_connected(a, first) ==
  Cardinality(plain_bfs(a, first)) = Cardinality(DOMAIN a)

RECURSIVE sssp_length_loop(_, _, _, _)
\* The while loop of single_source_shortest_path_length: seen[v] = level for
\* the nodes of thislevel not yet seen.
sssp_length_loop(a, seen, level, nextlevel) ==
  IF nextlevel = {} THEN seen
  ELSE LET fresh == nextlevel \ DOMAIN seen
           seen2 == [v \in DOMAIN seen \cup fresh |->
                       IF v \in DOMAIN seen THEN seen[v] ELSE level]
       IN sssp_length_loop(a, seen2, level + 1, UNION {a[v] : v \in fresh})

\* nx.single_source_shortest_path_length(G, source): node -> distance, for
\* the nodes reachable from source.
single_source_shortest_path_length(a, source) ==
  sssp_length_loop(a, [v \in {} |-> 0], 0, {source})

\* avg: the sum over every node of the sum of its distance dict.
sum_of_distances(a) ==
  LET row == [u \in DOMAIN a |->
                LET d == single_source_shortest_path_length(a, u)
                IN SumOver(d, DOMAIN d)]
  IN SumOver(row, DOMAIN a)

\* nx.average_shortest_path_length(G), in the 1.x library the notebook is
\* written for (G.degree() is a dict there):
\*   null graph: is_connected raises NetworkXPointlessConcept;
\*   not connected: NetworkXError("Graph is not connected.");
\*   otherwise avg / (n * (n - 1)), a division by zero when n = 1.
average_shortest_path_length(a, first) ==
  LET n == number_of_nodes(a)
  IN IF n = 0 THEN [err |-> "NetworkXPointlessConcept"]
     ELSE IF ~is_connected(a, first) THEN [err |-> "NetworkXError: Graph is not connected."]
     ELSE IF n = 1 THEN [err |-> "ZeroDivisionError"]
     ELSE [err |-> "none", ret |-> Frac(sum_of_distances(a), n * (n - 1))]

\* None, as the value of pred[source] and succ[target], and of a k that is
\* not given.
None == 0

RECURSIVE level_pairs(_, _)
\* for v in this_level: for w in G[v]: the pairs (v, w) in the order the
\* two nested loops visit them, nbr[v] being the neighbours of v in the
\* order G[v] iterates.
level_pairs(nbr, this_level) ==
  IF this_level = <<>> THEN <<>>
  ELSE LET v  == Head(this_level)
           ws == nbr[v]
       IN [i \in 1..Len(ws) |-> <<v, ws[i]>>] \o level_pairs(nbr, Tail(this_level))

RECURSIVE fringe_scan(_, _, _, _)
\* One level of _bidirectional_pred_succ from one side: a new node w joins
\* the fringe with mine[w] = v; the scan returns at the first w the other
\* side has already reached.
fringe_scan(pairs, mine, other, fringe) ==
  IF pairs = <<>> THEN [found |-> None, mine |-> mine, fringe |-> fringe]
  ELSE LET v == Head(pairs)[1]
           w == Head(pairs)[2]
           isnew   == w \notin DOMAIN mine
           mine2   == IF isnew THEN mine @@ (w :> v) ELSE mine
           fringe2 == IF isnew THEN Append(fringe, w) ELSE fringe
       IN IF w \in DOMAIN other
          THEN [found |-> w, mine |-> mine2, fringe |-> fringe2]
          ELSE fringe_scan(Tail(pairs), mine2, other, fringe2)

RECURSIVE bidirectional_loop(_, _, _, _, _)
\* while forward_fringe and reverse_fringe: expand the smaller fringe (the
\* forward one on a tie); falling out of the loop raises NetworkXNoPath.
bidirectional_loop(nbr, pred, succ, forward_fringe, reverse_fringe) ==
  IF forward_fringe = <<>> \/ reverse_fringe = <<>> THEN [found |-> None]
  ELSE IF Len(forward_fringe) <= Len(reverse_fringe)
  THEN LET r == fringe_scan(level_pairs(nbr, forward_fringe), pred, succ, <<>>)
       IN IF r.found # None THEN [found |-> r.found, pred |-> r.mine, succ |-> succ]
          ELSE bidirectional_loop(nbr, r.mine, succ, r.fringe, reverse_fringe)
  ELSE LET r == fringe_scan(level_pairs(nbr, reverse_fringe), succ, pred, <<>>)
       IN IF r.found # None THEN [found |-> r.found, pred |-> pred, succ |-> r.mine]
          ELSE bidirectional_loop(nbr, pred, r.mine, forward_fringe, r.fringe)

\* _bidirectional_pred_succ(G, source, target)
bidirectional_pred_succ(nbr, source, target) ==
  IF target = source
  THEN [found |-> source, pred |-> (target :> None), succ |-> (source :> None)]
  ELSE bidirectional_loop(nbr, (source :> None), (target :> None), <<source>>, <<target>>)

RECURSIVE follow(_, _)
\* while w is not None: path.append(w); w = link[w]
follow(link, w) == IF w = None THEN <<>> ELSE <<w>> \o follow(link, link[w])

Reverse(s) == [i \in 1..Len(s) |-> s[Len(s) + 1 - i]]

\* A plausible slip: the half of the path behind the meeting node is dropped.
shortest_path_front(nbr, source, target) ==
  LET r == bidirectional_pred_succ(nbr, source, target)
  IN IF r.found = None THEN [err |-> "NetworkXNoPath"]
     ELSE [err |-> "none", ret |-> Reverse(follow(r.pred, r.found))]

\* nx.shortest_path(G, source, target), both nodes in G, no weight, on the
\* graph whose neighbour dicts iterate as nbr: bidirectional_shortest_path,
\* the path source .. w .. target through the node w where the two searches
\* met.
shortest_path(nbr, source, target) ==
  LET r == bidirectional_pred_succ(nbr, source, target)
  IN IF r.found = None THEN [err |-> "NetworkXNoPath"]
     ELSE LET front == Reverse(follow(r.pred, r.found))
          IN [err |-> "none", ret |-> front \o follow(r.succ, r.succ[r.found])]

----------------------------------------------------------------------------
\* Centrality: degree and closeness, in the floats of the code.

\* nx.degree_centrality(G): s = 1.0 / (len(G) - 1.0), a float division by
\* zero when the graph has one node; then node -> d * s over G.degree_iter():
\* a division and a product, each rounded.
degree_centrality(a) ==
  LET n == number_of_nodes(a)
  IN IF n = 1 THEN [err |-> "ZeroDivisionError"]
     ELSE [err |-> "none",
           ret |-> [u \in DOMAIN a |->
                      float_mul[float_of[degree(a, u)],
                                float_div[float_of[1], float_of[n - 1]]]]]

\* A plausible slip: the scaling to the reachable part is left out.
closeness_centrality_unscaled(a, u) ==
  LET sp == single_source_shortest_path_length(a, u)
      totsp == SumOver(sp, DOMAIN sp)
  IN IF totsp > 0 /\ number_of_nodes(a) > 1
     THEN float_div[float_of[Cardinality(DOMAIN sp) - 1], float_of[totsp]]
     ELSE float_zero

\* nx.closeness_centrality(G, u=u), normalized=True by default:
\*   sp = path_length(G, u); totsp = sum(sp.values())
\*   if totsp > 0.0 and len(G) > 1:
\*       closeness_centrality[n] = (len(sp) - 1.0) / totsp
\*       s = (len(sp) - 1.0) / (len(G) - 1)
\*       closeness_centrality[n] *= s
\*   else: 0.0
\* Two divisions and a product, each rounded.
closeness_centrality(a, u) ==
  LET sp == single_source_shortest_path_length(a, u)
      totsp == SumOver(sp, DOMAIN sp)
      r == Cardinality(DOMAIN sp)
      n == number_of_nodes(a)
  IN IF totsp > 0 /\ n > 1
     THEN float_mul[float_div[float_of[r - 1], float_of[totsp]],
                    float_div[float_of[r - 1], float_of[n - 1]]]
     ELSE float_zero

----------------------------------------------------------------------------
\* Betweenness centrality: Brandes' algorithm.  sigma holds floats that are
\* whole numbers, kept as the numbers they are; delta, coeff and betweenness
\* hold floats.

RECURSIVE sssp_basic_scan(_, _, _)
\* for w in G[v]: a node w not yet in D joins Q at distance D[v] + 1; a node
\* w at distance D[v] + 1 gains sigma[v] paths and the predecessor v.
sssp_basic_scan(nbrs, v, st) ==
  IF nbrs = <<>> THEN st
  ELSE LET w == Head(nbrs)
           fresh == w \notin DOMAIN st.D
           D2 == IF fresh
                 THEN [x \in DOMAIN st.D \cup {w} |->
                         IF x = w THEN st.D[v] + 1 ELSE st.D[x]]
                 ELSE st.D
           Q2 == IF fresh THEN Append(st.Q, w) ELSE st.Q
           onpath == D2[w] = st.D[v] + 1
       IN sssp_basic_scan(Tail(nbrs), v,
            [Q |-> Q2, D |-> D2, S |-> st.S,
             sigma |-> IF onpath
                       THEN [st.sigma EXCEPT ![w] = @ + st.sigma[v]]
                       ELSE st.sigma,
             P |-> IF onpath THEN [st.P EXCEPT ![w] = @ \cup {v}] ELSE st.P])

RECURSIVE sssp_basic_loop(_, _)
\* while Q: v = Q.pop(0); S.append(v); scan the neighbours of v, in every
\* order G[v] can iterate in.  The set of the final states.
sssp_basic_loop(a, st) ==
  IF st.Q = <<>> THEN {st}
  ELSE LET v == Head(st.Q)
           popped == [st EXCEPT !.Q = Tail(@), !.S = Append(@, v)]
           scanned == {sssp_basic_scan(nbrs, v, popped) : nbrs \in Orders(a[v])}
       IN UNION {sssp_basic_loop(a, st2) : st2 \in scanned}

\* _single_source_shortest_path_basic(G, s): S, the nodes in order of
\* non-decreasing distance from s; P, the predecessors of each node on the
\* shortest paths from s (the list P[w] as a set: _accumulate_basic adds
\* one term to delta[v] for each element v of P[w], each to a sum of its
\* own); sigma, the number of those paths.  The set of the results of every
\* iteration order of the neighbour dicts.
single_source_shortest_path_basic(a, s) ==
  sssp_basic_loop(a,
    [Q |-> <<s>>, S |-> <<>>, D |-> [x \in {s} |-> 0],
     sigma |-> [x \in DOMAIN a |-> IF x = s THEN 1 ELSE 0],
     P |-> [x \in DOMAIN a |-> {}]])

\* delta after the node w has passed its dependency on:
\* coeff = (1.0 + delta[w]) / sigma[w]; delta[v] += sigma[v] * coeff for v
\* in P[w]
accumulate_basic_delta(P, sigma, delta, w, coeff) ==
  [v \in DOMAIN delta |->
     IF v \in P[w]
     THEN float_add[delta[v], float_mul[float_of[sigma[v]], coeff]]
     ELSE delta[v]]

RECURSIVE accumulate_basic_loop(_, _, _, _, _, _)
\* while S: w = S.pop(); coeff = (1.0 + delta[w]) / sigma[w];
\* delta[v] += sigma[v] * coeff for v in P[w]; betweenness[w] += delta[w]
\* unless w is the source.
accumulate_basic_loop(betweenness, S, P, sigma, s, delta) ==
  IF S = <<>> THEN betweenness
  ELSE LET w == S[Len(S)]
           coeff == float_div[float_add[float_of[1], delta[w]],
                              float_of[sigma[w]]]
           b2 == IF w # s
                 THEN [betweenness EXCEPT ![w] = float_add[@, delta[w]]]
                 ELSE betweenness
       IN accumulate_basic_loop(b2, SubSeq(S, 1, Len(S) - 1), P, sigma, s,
                                accumulate_basic_delta(P, sigma, delta, w, coeff))

\* _accumulate_basic(betweenness, S, P, sigma, s): delta = dict.fromkeys(S, 0)
accumulate_basic(betweenness, S, P, sigma, s) ==
  accumulate_basic_loop(betweenness, S, P, sigma, s,
                        [v \in Range(S) |-> float_zero])

RECURSIVE betweenness_frontier(_, _)
\* The sources still to take and the betweenness so far, after the same
\* number of sources taken in every order and with every outcome paths[s]
\* of the search from s; the set of the final betweenness.
betweenness_frontier(paths, frontier) ==
  IF \A f \in frontier : f.todo = {} THEN {f.betweenness : f \in frontier}
  ELSE betweenness_frontier(paths,
         UNION {UNION {{[todo |-> f.todo \ {s},
                         betweenness |->
                           accumulate_basic(f.betweenness, r.S, r.P, r.sigma, s)] :
                          r \in paths[s]} :
                       s \in f.todo} :
                f \in frontier})

\* for s in nodes: shortest paths from s, then accumulation.  The sums are
\* rounded, so the order the sources are taken in can show: G iterates, and
\* random.sample draws, in any order.  The set of the results of every order
\* of the sources and every outcome of the searches.
betweenness_sources(a, sources, betweenness) ==
  betweenness_frontier([s \in sources |-> single_source_shortest_path_basic(a, s)],
                       {[todo |-> sources, betweenness |-> betweenness]})

\* A plausible slip: the scale of a measure that counts every pair once,
\* 2 / ((n - 1)(n - 2)), where the accumulation has counted every pair twice.
rescale_doubled(betweenness, n, k) ==
  IF n <= 2 THEN betweenness
  ELSE LET scale == float_div[float_of[2], float_of[(n - 1) * (n - 2)]]
       IN [v \in DOMAIN betweenness |->
             float_mul[betweenness[v],
                       IF k = None THEN scale
                       ELSE float_div[float_mul[scale, float_of[n]], float_of[k]]]]

\* _rescale(betweenness, n, normalized=True, directed=False, k): no scaling
\* when n <= 2; else scale = 1.0 / ((n - 1) * (n - 2)), and
\* scale = scale * n / k when k is given; betweenness[v] *= scale.
rescale(betweenness, n, k) ==
  IF n <= 2 THEN betweenness
  ELSE LET scale == float_div[float_of[1], float_of[(n - 1) * (n - 2)]]
       IN [v \in DOMAIN betweenness |->
             float_mul[betweenness[v],
                       IF k = None THEN scale
                       ELSE float_div[float_mul[scale, float_of[n]], float_of[k]]]]

\* nx.betweenness_centrality(G, k): betweenness = dict.fromkeys(G, 0.0); the
\* sources are every node of G when k is None, else sample, the k nodes
\* random.sample(G.nodes(), k) drew.  The set of the results of every
\* iteration order.
betweenness_centrality(a, k, sample) ==
  {rescale(b, number_of_nodes(a), k) :
     b \in betweenness_sources(a,
              IF k = None THEN DOMAIN a ELSE sample,
              [v \in DOMAIN a |-> float_zero])}

----------------------------------------------------------------------------
\* Clique enumeration: nx.find_cliques.

\* adj = {u: {v for v in G[u] if v != u} for u in G}
clique_adj(a) == [u \in DOMAIN a |-> a[u] \ {u}]

\* u = max(subg, key=lambda u: len(cand & adj[u])): the first element of
\* subg, in the order the set iterates, among those with the largest key;
\* which of them comes first is up to the set.  The nodes max can return.
pivots(nbrs, subg, cand) ==
  LET key == [u \in subg |-> Cardinality(cand \cap nbrs[u])]
  IN {u \in subg : \A x \in subg : key[x] <= key[u]}

RECURSIVE expand_nomax(_, _, _, _, _)
\* A plausible slip: a clique is yielded when no candidate is left, without
\* looking at the nodes already tried (subg).
expand_nomax(nbrs, Q, subg, cand, ext_u) ==
  IF ext_u = {} THEN {<<>>}
  ELSE UNION {
         LET cand2  == cand \ {q}
             subg_q == subg \cap nbrs[q]
             cand_q == cand2 \cap nbrs[q]
             below  ==
               IF cand_q = {} THEN {<<Append(Q, q)>>}
               ELSE UNION {expand_nomax(nbrs, Append(Q, q), subg_q, cand_q,
                                        cand_q \ nbrs[u]) :
                             u \in pivots(nbrs, subg_q, cand_q)}
         IN {b \o r : b \in below,
                      r \in expand_nomax(nbrs, Q, subg, cand2, ext_u \ {q})} :
         q \in ext_u}

RECURSIVE expand_keepcand(_, _, _, _, _)
\* A plausible slip: cand.remove(q) is left out, so a node already tried
\* stays a candidate of the nodes tried after it.
expand_keepcand(nbrs, Q, subg, cand, ext_u) ==
  IF ext_u = {} THEN {<<>>}
  ELSE UNION {
         LET subg_q == subg \cap nbrs[q]
             cand_q == cand \cap nbrs[q]
             below  ==
               IF subg_q = {} THEN {<<Append(Q, q)>>}
               ELSE IF cand_q # {}
               THEN UNION {expand_keepcand(nbrs, Append(Q, q), subg_q, cand_q,
                                           cand_q \ nbrs[u]) :
                             u \in pivots(nbrs, subg_q, cand_q)}
               ELSE {<<>>}
         IN {b \o r : b \in below,
                      r \in expand_keepcand(nbrs, Q, subg, cand, ext_u \ {q})} :
         q \in ext_u}

RECURSIVE expand(_, _, _, _, _)
\* The loop of find_cliques at one depth of its stack: each q popped from
\* ext_u leaves cand and ends the clique Q; with no common neighbour left
\* (subg_q empty) Q is yielded, with candidates left the search descends
\* with (subg_q, cand_q) and comes back to the rest of ext_u.  q =
\* ext_u.pop() is whichever element the set gives up first, and the pivot u
\* any of pivots: the set of the sequences of cliques the loop can yield.
expand(nbrs, Q, subg, cand, ext_u) ==
  IF ext_u = {} THEN {<<>>}
  ELSE UNION {
         LET cand2  == cand \ {q}
             subg_q == subg \cap nbrs[q]
             cand_q == cand2 \cap nbrs[q]
             below  ==
               IF subg_q = {} THEN {<<Append(Q, q)>>}
               ELSE IF cand_q # {}
               THEN UNION {expand(nbrs, Append(Q, q), subg_q, cand_q,
                                  cand_q \ nbrs[u]) :
                             u \in pivots(nbrs, subg_q, cand_q)}
               ELSE {<<>>}
         IN {b \o r : b \in below,
                      r \in expand(nbrs, Q, subg, cand2, ext_u \ {q})} :
         q \in ext_u}

\* find_cliques with the slip of expand_nomax.
find_cliques_nomax(a) ==
  IF DOMAIN a = {} THEN {<<>>}
  ELSE LET nbrs == clique_adj(a)
           all  == DOMAIN a
       IN UNION {expand_nomax(nbrs, <<>>, all, all, all \ nbrs[u]) :
                   u \in pivots(nbrs, all, all)}

\* list(nx.find_cliques(G)): the cliques in the order they are yielded, each
\* a list of nodes; the set of the lists the call can return, one for each
\* way its sets can iterate.  The null graph yields nothing.
find_cliques(a) ==
  IF DOMAIN a = {} THEN {<<>>}
  ELSE LET nbrs == clique_adj(a)
           all  == DOMAIN a
       IN UNION {expand(nbrs, <<>>, all, all, all \ nbrs[u]) :
                   u \in pivots(nbrs, all, all)}

----------------------------------------------------------------------------
\* Community detection: community.best_partition (the Louvain method).
\* A weighted graph is [nodes, w] with w[u, v] = w[v, u] the weight of edge
\* {u, v}, 0 when there is none.  Modularity is the fraction num / den.

\* __MIN = 0.0000001, as 1 / MIN_INV
MIN_INV == 10000000

\* The graph G with weight 1 on every edge (datas.get(weight, 1)).
weighted(a) ==
  [nodes |-> DOMAIN a,
   w |-> [e \in (DOMAIN a) \X (DOMAIN a) |-> IF e[2] \in a[e[1]] THEN 1 ELSE 0]]

\* graph.degree(node, weight): the weights of the edges at node, a self-loop
\* counted twice.
wdegree(g, u) == SumOver([v \in g.nodes |-> g.w[u, v]], g.nodes) + g.w[u, u]

\* graph.size(weight): half the sum of the weighted degrees.
wsize(g) == SumOver([u \in g.nodes |-> wdegree(g, u)], g.nodes) \div 2

\* Status.init(graph, weight): every node in a community of its own,
\* numbered 0, 1, ... in the order graph.nodes() lists the nodes.
status_init(g, order) ==
  LET k == Len(order)
  IN [node2com     |-> [n \in g.nodes |-> (CHOOSE i \in 1..k : order[i] = n) - 1],
      total_weight |-> wsize(g),
      degrees      |-> [c \in 0..(k - 1) |-> wdegree(g, order[c + 1])],
      gdegrees     |-> [n \in g.nodes |-> wdegree(g, n)],
      loops        |-> [n \in g.nodes |-> g.w[n, n]],
      internals    |-> [c \in 0..(k - 1) |-> g.w[order[c + 1], order[c + 1]]]]

\* __neighcom(node, graph, status, weight): community -> total weight of the
\* edges from node to it, over the neighbours other than node itself.
neighcom(g, st, node) ==
  LET nbrs == {v \in g.nodes \ {node} : g.w[node, v] > 0}
  IN [c \in {st.node2com[v] : v \in nbrs} |->
        SumOver([v \in nbrs |-> IF st.node2com[v] = c THEN g.w[node, v] ELSE 0], nbrs)]

\* neigh_communities.get(com, 0.)
get0(d, k) == IF k \in DOMAIN d THEN d[k] ELSE 0

\* The pairs (best_com, best_increase) the loop below carries along.
BestComs == [com : Int, increase : Floats]

\* The body of the loop over neigh_communities.items(), incr being
\*     incr = dnc - status.degrees.get(com, 0.) * degc_totw
\* if incr > best_increase: best_increase = incr; best_com = com
best_com_step[best \in BestComs, com \in Int, incr \in Floats] ==
  IF float_lt[best.increase, incr] THEN [com |-> com, increase |-> incr] ELSE best

\* for com, dnc in neigh_communities.items(): ..., the items coming in the
\* order coms of their keys: the arithmetic is that of the floats, dnc and
\* the degrees being whole numbers.  Rounding can set apart two gains that
\* are equal as fractions: with degc_totw = 4 / 20., 2 - 7 * degc_totw is
\* 0.5999999999999999 and 1 - 2 * degc_totw is 0.6.
best_com_loop(coms, neigh, degrees, degc_totw, best) ==
  LET loop[i \in 0..Len(coms)] ==
        IF i = 0 THEN best
        ELSE best_com_step[loop[i - 1], coms[i],
                           float_sub[float_of[neigh[coms[i]]],
                                     float_mul[float_of[degrees[coms[i]]], degc_totw]]]
  IN loop[Len(coms)].com

\* __remove(node, com, weight, status): node leaves community com, to
\* which it is tied by edges of total weight weight.
remove(st, node, com, weight) ==
  [st EXCEPT !.degrees   = [@ EXCEPT ![com] = @ - st.gdegrees[node]],
             !.internals = [@ EXCEPT ![com] = @ - (weight + st.loops[node])],
             !.node2com  = [@ EXCEPT ![node] = -1]]

\* __insert(node, com, weight, status): node joins community com.
insert(st, node, com, weight) ==
  [st EXCEPT !.node2com  = [@ EXCEPT ![node] = com],
             !.degrees   = [@ EXCEPT ![com] = @ + st.gdegrees[node]],
             !.internals = [@ EXCEPT ![com] = @ + weight + st.loops[node]]]

\* The choice of best_com for node in __one_level, st being the status
\* after __remove: degc_totw = gdegrees[node] / (total_weight * 2.),
\* best_com = com_node and best_increase = 0 to start with, then the loop
\* over neigh_communities.items(), whose keys iterate as coms.
best_community(st, neigh, node, com_node, coms) ==
  best_com_loop(coms, neigh, st.degrees,
                float_div[float_of[st.gdegrees[node]], float_of[2 * st.total_weight]],
                [com |-> com_node, increase |-> float_zero])

\* The body of the for loop of __one_level for one node: __remove from its
\* community, choice of the best neighbouring community, __insert there.
move_node(g, st, node, coms) ==
  LET com_node == st.node2com[node]
      neigh    == neighcom(g, st, node)
      removed  == remove(st, node, com_node, get0(neigh, com_node))
      best_com == best_community(removed, neigh, node, com_node, coms)
  IN [st |-> insert(removed, node, best_com, get0(neigh, best_com)),
      moved |-> best_com # com_node]

RECURSIVE sweep(_, _, _, _)
\* for node in graph.nodes(): one pass over the nodes, in the order
\* graph.nodes() lists them; modified tells whether some node changed
\* community.  The outcomes of the pass, one for each way the dicts
\* neigh_communities of its nodes can iterate.
sweep(g, st, order, modified) ==
  IF order = <<>> THEN {[st |-> st, modified |-> modified]}
  ELSE UNION {sweep(g, r.st, Tail(order), modified \/ r.moved) :
                r \in {move_node(g, st, Head(order), coms) :
                         coms \in TableOrders(DOMAIN neighcom(g, st, Head(order)))}}

\* __modularity(status): sum over the communities in use of
\* in_degree / links - (degree / (2 links))^2, as a fraction over 4 links^2.
modularity(st) ==
  LET m    == st.total_weight
      coms == {st.node2com[n] : n \in DOMAIN st.node2com}
  IN Frac(SumOver([c \in coms |-> 4 * m * st.internals[c] - st.degrees[c] * st.degrees[c]],
                  coms),
          4 * m * m)

\* A plausible slip: the loops stop only when modularity went down.
gain_negative(new_mod, cur_mod) ==
  {new_mod.num * cur_mod.den - cur_mod.num * new_mod.den < 0}

\* new_mod - cur_mod < __MIN, the outcomes the floats can give.  The
\* modularities are kept as the fractions their sums stand for; the sums of
\* the code are rounded at every step and (x) ** 2 is as exact as the
\* library's pow, which all adds up to an error far below 10^-9 on graphs
\* of fewer than 10^5 communities.  A difference diff / den of the two
\* fractions below 0.99 __MIN is found below __MIN, one above 1.01 __MIN is
\* not, and one in between can be found either way.
gain_below_min(new_mod, cur_mod) ==
  LET diff == new_mod.num * cur_mod.den - cur_mod.num * new_mod.den
      den  == limb_of[new_mod.den * cur_mod.den]
      gain == limb_mul[limb_of[diff], limb_of[100 * MIN_INV]]
  IN IF diff <= 0 THEN {TRUE}
     ELSE IF limb_cmp[gain, limb_mul_small[den, 99]] < 0 THEN {TRUE}
     ELSE IF limb_cmp[gain, limb_mul_small[den, 101]] > 0 THEN {FALSE}
     ELSE {TRUE, FALSE}

RECURSIVE one_level_loop(_, _, _, _)
\* The while loop of __one_level: passes are repeated while some node moved
\* and the pass gained at least __MIN of modularity (__PASS_MAX = -1: no
\* limit on the number of passes).  The graph is not changed between the
\* passes, so graph.nodes() lists the nodes in the same order in each.  The
\* statuses the loop can end with.
one_level_loop(g, st, cur_mod, order) ==
  UNION {UNION {IF below \/ ~r.modified THEN {r.st}
                ELSE one_level_loop(g, r.st, modularity(r.st), order) :
                  below \in gain_below_min(modularity(r.st), cur_mod)} :
           r \in sweep(g, st, order, FALSE)}

\* __one_level(graph, status, weight, resolution), order being the order
\* of graph.nodes().
one_level(g, st, order) == one_level_loop(g, st, modularity(st), order)

RECURSIVE renumber_loop(_, _, _, _)
\* The loop of __renumber over the keys: a value gets the next number the
\* first time it is met.
renumber_loop(dictionary, keys, new_values, ret) ==
  IF keys = <<>> THEN ret
  ELSE LET key   == Head(keys)
           value == dictionary[key]
       IN IF value \in DOMAIN new_values
          THEN renumber_loop(dictionary, Tail(keys), new_values,
                             [ret EXCEPT ![key] = new_values[value]])
          ELSE LET count == Cardinality(DOMAIN new_values)
               IN renumber_loop(dictionary, Tail(keys), new_values @@ (value :> count),
                                [ret EXCEPT ![key] = count])

\* __renumber(dictionary): the same partition with communities 0 .. k-1,
\* written into ret = dictionary.copy(); keys is dictionary.keys() in the
\* order the dict iterates.
renumber(dictionary, keys) ==
  LET copy == [key \in DOMAIN dictionary |-> dictionary[key]]
  IN renumber_loop(dictionary, keys, [v \in {} |-> 0], copy)

\* An enumeration of a set.
SeqOf(S) == CHOOSE s \in Orders(S) : TRUE

RECURSIVE Flatten(_)
Flatten(ss) == IF ss = <<>> THEN <<>> ELSE Head(ss) \o Flatten(Tail(ss))

\* The orders of dictionary.keys() that __renumber can tell apart: it reads
\* the keys only to number each community when its first key is met, so one
\* order of the keys is listed for each order in which the communities can
\* be first met.
KeyOrders(dictionary) ==
  {Flatten([i \in 1..Len(met) |->
              SeqOf({k \in DOMAIN dictionary : dictionary[k] = met[i]})]) :
     met \in Orders({dictionary[k] : k \in DOMAIN dictionary})}

\* induced_graph(partition, graph, weight): one node per community, the
\* weight between two communities the sum of the weights of the edges
\* between their members (each edge of the graph once, self-loops included).
induced_graph(partition, g) ==
  LET coms == {partition[n] : n \in g.nodes}
      between(c1, c2) ==
        LET edges == {e \in g.nodes \X g.nodes :
                        /\ partition[e[1]] = c1 /\ partition[e[2]] = c2
                        /\ c1 = c2 => e[1] <= e[2]}
        IN SumOver([e \in edges |-> g.w[e]], edges)
  IN [nodes |-> coms, w |-> [e \in coms \X coms |-> between(e[1], e[2])]]

RECURSIVE dendrogram_loop(_, _, _)
\* while True: status.init(current_graph) and one more level on the
\* contracted graph g; stop when the level gains less than __MIN of
\* modularity over mod.  The nodes of a contracted graph are community
\* numbers, and so are the keys of its node2com; graph.nodes() lists the
\* nodes in one order for status.init and for __one_level.  The dendrograms
\* the loop can end with.
dendrogram_loop(g, mod, status_list) ==
  UNION {UNION {UNION {
     IF below THEN {status_list}
     ELSE UNION {LET partition == renumber(st1.node2com, keys)
                 IN dendrogram_loop(induced_graph(partition, g), modularity(st1),
                                    Append(status_list, partition)) :
                   keys \in TableOrders(DOMAIN st1.node2com)} :
       below \in gain_below_min(modularity(st1), mod)} :
     st1 \in one_level(g, status_init(g, order), order)} :
   order \in TableOrders(g.nodes)}

\* The first level of generate_dendrogram: status.init(current_graph) and
\* __one_level on the copy of the graph, whose nodes() are listed in order.
first_level(g, order) == one_level(g, status_init(g, order), order)

\* generate_dendrogram after the first __one_level has left status st1:
\* the first partition, with the keys of node2com iterating as keys, and
\* the levels that follow.
dendrogram_from(g, st1, keys) ==
  LET partition == renumber(st1.node2com, keys)
  IN dendrogram_loop(induced_graph(partition, g), modularity(st1), <<partition>>)

\* generate_dendrogram(graph): the partitions of the successive levels; a
\* graph without edges has the one level in which every node is its own
\* label.
generate_dendrogram(g, order, keys) ==
  IF \A e \in DOMAIN g.w : g.w[e] = 0 THEN {<<[n \in g.nodes |-> n]>>}
  ELSE UNION {dendrogram_from(g, st1, keys) : st1 \in first_level(g, order)}

RECURSIVE unroll(_, _, _)
\* for index in range(1, level + 1): partition[node] =
\* dendrogram[index][community]
unroll(dendrogram, partition, index) ==
  IF index > Len(dendrogram) THEN partition
  ELSE unroll(dendrogram,
              [n \in DOMAIN partition |-> dendrogram[index][partition[n]]], index + 1)

\* A plausible slip: the partition of the last level is returned as it is,
\* a mapping of the contracted nodes.
partition_at_level_flat(dendrogram) == dendrogram[Len(dendrogram)]

\* partition_at_level(dendrogram, len(dendrogram) - 1): the communities of
\* the last level, unrolled back to the nodes of the first graph.
partition_at_level(dendrogram) == unroll(dendrogram, dendrogram[1], 2)

\* community.best_partition(G): node -> community label, when
\* current_graph.nodes() lists the nodes in order and the keys of the
\* node2com of the first level iterate as keys.
best_partition(a, order, keys) ==
  {partition_at_level(dendrogram) :
     dendrogram \in generate_dendrogram(weighted(a), order, keys)}

\* The dendrograms generate_dendrogram(G) can build: current_graph.nodes()
\* lists the nodes in any order, and the keys of the node2com that the
\* first level leaves iterate in any order (the first level is run once for
\* each order of the nodes, whatever the keys do after it).
dendrograms(a) ==
  LET g == weighted(a)
      after(st1) == UNION {dendrogram_from(g, st1, keys) :
                             keys \in KeyOrders(st1.node2com)}
  IN IF number_of_edges(a) = 0 THEN generate_dendrogram(g, <<>>, <<>>)
     ELSE UNION {UNION {after(st1) : st1 \in first_level(g, order)} :
                   order \in Orders(nodes(a))}

----------------------------------------------------------------------------
\* State machine

\* No call is pending: the previous result has been consumed.
NoCall == [op |-> "none"]

Init == adj = EmptyGraph /\ calls = 0 /\ last = NoCall

\* One iteration of G.add_edges_from(network): the next pair (u, v), while
\* fewer than max pairs have been loaded.
load_pair(u, v, max) ==
  /\ last.op = "none"
  /\ calls < max
  /\ adj' = add_edge(adj, u, v)
  /\ calls' = calls + 1
  /\ UNCHANGED last

\* The ids of the model name the nodes by first appearance in the edge
\* list: a pair names nodes already loaded, or the next free id for a node
\* that is new (and the one after it when both are).  An id stands for the
\* node and nothing else, no order is read from it, so every edge list is
\* one of these with its nodes renamed.
first_appearance(u, v) ==
  LET m == number_of_nodes(adj)
  IN u <= m + 1 /\ v <= (IF u = m + 1 THEN m + 2 ELSE m + 1)

\* Loading over the nodes Node.
AddEdge(u, v) == first_appearance(u, v) /\ load_pair(u, v, MaxCalls)

\* Loading over the nodes WideNodes, from an edge list that names every edge
\* once, smaller node first (by C3 the repeated and the reversed pairs it
\* leaves out build nothing new).
AddEdgeWide(u, v) ==
  /\ u <= v /\ ~has_edge(adj, u, v)
  /\ first_appearance(u, v)
  /\ load_pair(u, v, WideCalls)

\* Loading over the nodes CentralNodes, from an edge list that names every
\* edge once, smaller node first.
AddEdgeCentral(u, v) ==
  /\ u <= v /\ ~has_edge(adj, u, v)
  /\ first_appearance(u, v)
  /\ load_pair(u, v, CentralCalls)

\* G.nodes(), as in the list comprehension over G.nodes() beside
\* best_partition: list(self.adj), the keys in the order the dict iterates.
Nodes ==
  /\ last.op = "none"
  /\ \E order \in Orders(nodes(adj)) :
       last' = [op |-> "nodes", ret |-> order]
  /\ UNCHANGED <<adj, calls>>

\* G.neighbors(n):
\*   try: return list(self.adj[n])
\*   except KeyError: raise NetworkXError("The node %s is not in the graph.")
\* for a node n of the graph or not; the cell as written, G.neighbors(),
\* passes no node (None here) and fails with TypeError before the body is
\* entered.  The graph after the call is the dict the lookup leaves.
Neighbors(n) ==
  /\ last.op = "none"
  /\ IF n = None
     THEN /\ last' = [op |-> "neighbors", n |-> n, err |-> "TypeError"]
          /\ UNCHANGED adj
     ELSE \E got \in {getitem(adj, n)} :
            /\ adj' = got.adj
            /\ IF got.err = "KeyError"
               THEN last' = [op |-> "neighbors", n |-> n, err |-> "NetworkXError"]
               ELSE \E order \in Orders(got.value) :
                      last' = [op |-> "neighbors", n |-> n, err |-> "none",
                               ret |-> order]
  /\ UNCHANGED calls

\* print(nx.info(G)): node and edge counts.
Info ==
  /\ last.op = "none"
  /\ last' = [op |-> "info", n |-> number_of_nodes(adj), m |-> number_of_edges(adj)]
  /\ UNCHANGED <<adj, calls>>

\* print(nx.density(G))
Density ==
  /\ last.op = "none"
  /\ last' = [op |-> "density", ret |-> density(adj)]
  /\ UNCHANGED <<adj, calls>>

\* dict_degree = G.degree()
Degree ==
  /\ last.op = "none"
  /\ last' = [op |-> "degree", ret |-> degree_map(adj)]
  /\ UNCHANGED <<adj, calls>>

\* list(nx.connected_components(G))
ConnectedComponents ==
  /\ last.op = "none"
  /\ \E order \in Orders(nodes(adj)) :
       last' = [op |-> "connected_components",
                ret |-> connected_components(adj, order)]
  /\ UNCHANGED <<adj, calls>>

\* print(nx.average_shortest_path_length(G))
AverageShortestPathLength ==
  /\ last.op = "none"
  /\ \E first \in (IF nodes(adj) = {} THEN {None} ELSE nodes(adj)) :
       last' = [op |-> "average_shortest_path_length"]
                 @@ average_shortest_path_length(adj, first)
  /\ UNCHANGED <<adj, calls>>

\* ls_path = nx.shortest_path(G, u, v), for nodes u and v of G
ShortestPath(u, v) ==
  /\ last.op = "none"
  /\ u \in nodes(adj) /\ v \in nodes(adj)
  /\ \E nbr \in NeighbourOrders(adj) :
       last' = [op |-> "shortest_path", source |-> u, target |-> v]
                 @@ shortest_path(nbr, u, v)
  /\ UNCHANGED <<adj, calls>>

\* dict_degree_centrality = nx.degree_centrality(G)
DegreeCentrality ==
  /\ last.op = "none"
  /\ last' = [op |-> "degree_centrality"] @@ degree_centrality(adj)
  /\ UNCHANGED <<adj, calls>>

\* dict_closeness_centrality[u] = nx.closeness_centrality(G, u=u), for a
\* node u taken from the loaded pairs
ClosenessCentrality(u) ==
  /\ last.op = "none"
  /\ u \in nodes(adj)
  /\ last' = [op |-> "closeness_centrality", u |-> u,
              ret |-> closeness_centrality(adj, u)]
  /\ UNCHANGED <<adj, calls>>

\* dict_betweenness_centrality = nx.betweenness_centrality(G, k=k), for k
\* None or a positive sample size. random.sample raises ValueError when k
\* exceeds the number of nodes, and else draws any k of them.
BetweennessCentrality(k, sample) ==
  /\ last.op = "none"
  /\ IF k = None THEN sample = {}
     ELSE IF k > number_of_nodes(adj) THEN sample = {}
     ELSE sample \subseteq nodes(adj) /\ Cardinality(sample) = k
  /\ IF k # None /\ k > number_of_nodes(adj)
     THEN last' = [op |-> "betweenness_centrality", k |-> k,
                   err |-> "ValueError"]
     ELSE \E ret \in betweenness_centrality(adj, k, sample) :
            last' = [op |-> "betweenness_centrality", k |-> k, err |-> "none",
                     ret |-> ret]
  /\ UNCHANGED <<adj, calls>>

\* cliques = list(nx.find_cliques(G))
FindCliques ==
  /\ last.op = "none"
  /\ \E ret \in find_cliques(adj) :
       last' = [op |-> "find_cliques", ret |-> ret]
  /\ UNCHANGED <<adj, calls>>

\* dict_clusters = community.best_partition(G), the dendrogram the call
\* built kept beside its result.
BestPartition ==
  /\ last.op = "none"
  /\ \E dendrogram \in dendrograms(adj) :
       last' = [op |-> "best_partition",
                ret |-> partition_at_level(dendrogram),
                dendrogram |-> dendrogram]
  /\ UNCHANGED <<adj, calls>>

\* community.best_partition(G) statement by statement, the state of the
\* running call kept in last: current_graph g, status st, the nodes todo of
\* the pass under way and its flag modif, the modularity cur_mod before the
\* pass, the modularity mod of the level before, the partitions status_list
\* of the levels kept and the last of them, partition.

\* The call starts: a graph without edges returns at once, else
\* current_graph = graph.copy(), a deep copy, the graph g of the call;
\* status.init(current_graph) and __one_level is entered for the first
\* level.  order is the order current_graph.nodes() lists the nodes in.
\* From here to the return the statements of the call read g and write the
\* status and the locals; none writes to a graph.
LouvainBegin ==
  /\ last.op = "none"
  /\ IF number_of_edges(adj) = 0
     THEN last' = [op |-> "best_partition",
                   ret |-> [n \in DOMAIN adj |-> n],
                   dendrogram |-> <<[n \in DOMAIN adj |-> n]>>]
     ELSE \E order \in Orders(nodes(adj)) :
            LET g == weighted(adj)
                st == status_init(g, order)
            IN last' = [op |-> "louvain", pc |-> "pass", g |-> g, st |-> st,
                        order |-> order,
                        todo |-> order, modif |-> FALSE,
                        cur_mod |-> modularity(st), mod |-> modularity(st),
                        status_list |-> <<>>, partition |-> <<>>]
  /\ UNCHANGED <<adj, calls>>

\* for node in graph.nodes(): the body of the loop for the next node.
LouvainMove ==
  /\ last.op = "louvain" /\ last.pc = "pass" /\ last.todo # <<>>
  /\ \E node \in {Head(last.todo)} :
       \E com_node \in {last.st.node2com[node]} :
         \E neigh \in {neighcom(last.g, last.st, node)} :
           \E removed \in {remove(last.st, node, com_node, get0(neigh, com_node))} :
             \E coms \in TableOrders(DOMAIN neigh) :
               \E best_com \in {best_community(removed, neigh, node, com_node, coms)} :
                 last' = [last EXCEPT
                            !.st = insert(removed, node, best_com, get0(neigh, best_com)),
                            !.todo = Tail(@),
                            !.modif = @ \/ best_com # com_node]
  /\ UNCHANGED <<adj, calls>>

\* The end of a pass of __one_level: new_mod = __modularity(status); the
\* while loop ends when the pass gained less than __MIN or moved no node,
\* else the next pass starts.
LouvainPassEnd ==
  /\ last.op = "louvain" /\ last.pc = "pass" /\ last.todo = <<>>
  /\ \E new_mod \in {modularity(last.st)} :
       \E below \in gain_below_min(new_mod, last.cur_mod) :
         last' = IF below \/ ~last.modif
                 THEN [last EXCEPT !.pc = "level"]
                 ELSE [last EXCEPT !.cur_mod = new_mod, !.modif = FALSE,
                                   !.todo = last.order]
  /\ UNCHANGED <<adj, calls>>

\* After __one_level in generate_dendrogram: the first level is always kept;
\* a later level that gained less than __MIN ends the loop and the last
\* partition is unrolled and returned; else partition = __renumber(...) is
\* appended to status_list and mod = new_mod.  The keys of node2com are
\* nodes at the first level and community numbers after it.
LouvainLevel ==
  /\ last.op = "louvain" /\ last.pc = "level"
  /\ \E new_mod \in {modularity(last.st)} :
       \E below \in (IF last.status_list = <<>> THEN {FALSE}
                     ELSE gain_below_min(new_mod, last.mod)) :
         IF below
         THEN last' = [op |-> "best_partition",
                       ret |-> partition_at_level(last.status_list),
                       dendrogram |-> last.status_list]
         ELSE \E keys \in (IF last.status_list = <<>>
                            THEN KeyOrders(last.st.node2com)
                            ELSE TableOrders(DOMAIN last.st.node2com)) :
                \E partition \in {renumber(last.st.node2com, keys)} :
                  last' = [last EXCEPT
                             !.pc = "contract", !.mod = new_mod,
                             !.partition = partition,
                             !.status_list = Append(@, partition)]
  /\ UNCHANGED <<adj, calls>>

\* current_graph = induced_graph(partition, current_graph): induced_graph
\* builds ret = nx.Graph(), a new graph of the communities, and the name
\* current_graph is bound to it; the graph it was bound to is read.
LouvainContract ==
  /\ last.op = "louvain" /\ last.pc = "contract"
  /\ last' = [last EXCEPT !.pc = "init", !.g = induced_graph(last.partition, @)]
  /\ UNCHANGED <<adj, calls>>

\* status.init(current_graph), and __one_level is entered again: the nodes
\* of the contracted graph are community numbers.
LouvainStatusInit ==
  /\ last.op = "louvain" /\ last.pc = "init"
  /\ \E order \in TableOrders(last.g.nodes) :
       \E st \in {status_init(last.g, order)} :
         last' = [last EXCEPT !.pc = "pass", !.st = st, !.order = order,
                              !.cur_mod = modularity(st),
                              !.todo = order, !.modif = FALSE]
  /\ UNCHANGED <<adj, calls>>

\* The result of the last call is consumed (printed, stored in a frame); a
\* call still running has no result yet.
Return ==
  /\ last.op \notin {"none", "louvain"}
  /\ last' = NoCall
  /\ UNCHANGED <<adj, calls>>

Next ==
  \/ \E u, v \in Node : AddEdge(u, v)
  \/ Info
  \/ Density
  \/ Degree
  \/ ConnectedComponents
  \/ AverageShortestPathLength
  \/ \E u, v \in Node : ShortestPath(u, v)
  \/ DegreeCentrality
  \/ \E u \in Node : ClosenessCentrality(u)
  \/ \E k \in {None} \cup Node, sample \in SUBSET Node :
       BetweennessCentrality(k, sample)
  \/ FindCliques
  \/ Return

Spec == Init /\ [][Next]_vars

\* Loading and the three centralities alone, on the graphs of up to
\* CentralNode nodes, betweenness from every source.
NextCentrality ==
  \/ \E u, v \in CentralNodes : AddEdgeCentral(u, v)
  \/ DegreeCentrality
  \/ \E u \in CentralNodes : ClosenessCentrality(u)
  \/ BetweennessCentrality(None, {})
  \/ Return

SpecCentrality == Init /\ [][NextCentrality]_vars

\* Loading and community detection alone, on the wider graphs.
NextCommunity ==
  \/ \E u, v \in WideNodes : AddEdgeWide(u, v)
  \/ BestPartition
  \/ Return

SpecCommunity == Init /\ [][NextCommunity]_vars

\* Loading and community detection statement by statement.  The call is
\* synchronous: once started, each of its statements is run in turn until it
\* returns.
LouvainStep ==
  \/ LouvainMove
  \/ LouvainPassEnd
  \/ LouvainLevel
  \/ LouvainContract
  \/ LouvainStatusInit

NextLouvain ==
  \/ \E u, v \in WideNodes : AddEdgeWide(u, v)
  \/ LouvainBegin
  \/ LouvainStep
  \/ Return

SpecLouvain == Init /\ [][NextLouvain]_vars /\ WF_vars(LouvainStep)

\* Every analysis operation of the notebook, the node and neighbour lists
\* among them, and community detection statement by statement.
NextFrame ==
  \/ Next
  \/ Nodes
  \/ \E n \in {None} \cup Node : Neighbors(n)
  \/ LouvainBegin
  \/ LouvainStep

SpecFrame == Init /\ [][NextFrame]_vars

----------------------------------------------------------------------------
\* Reference notions the properties are stated in: adjacency, reachability
\* and distance as relations over the adjacency structure.

\* u and v are joined by an edge.
Adjacent(a, u, v) == u \in DOMAIN a /\ v \in DOMAIN a /\ v \in a[u]

RECURSIVE WithinSteps(_, _, _)
\* The nodes at most k edges away from some node of S.
WithinSteps(a, S, k) ==
  IF k = 0 THEN S
  ELSE WithinSteps(a, S \cup {w \in DOMAIN a : \E x \in S : Adjacent(a, x, w)}, k - 1)

\* v is reachable from u: an unbroken chain of edges joins them.
Reachable(a, u, v) == v \in WithinSteps(a, {u}, Cardinality(DOMAIN a))

\* d(u, v) for v reachable from u: the least number of edges of a chain.
Distance(a, u, v) ==
  Min({k \in 0..Cardinality(DOMAIN a) : v \in WithinSteps(a, {u}, k)})

\* The number of components: the classes of mutual reachability.
NumComponents(a) ==
  Cardinality({{v \in DOMAIN a : Reachable(a, u, v)} : u \in DOMAIN a})

\* The unordered pairs {u, v} joined by an edge.
EdgePairs(a) ==
  {e \in SUBSET (DOMAIN a) : \E u, v \in e : e = {u, v} /\ Adjacent(a, u, v)}

\* No node is its own neighbour.
Simple(a) == \A u \in DOMAIN a : u \notin a[u]

\* p is a path: pairwise distinct nodes, consecutive ones adjacent.
IsPath(a, p) ==
  /\ \A i \in 1..Len(p) : p[i] \in DOMAIN a
  /\ \A i, j \in 1..Len(p) : i # j => p[i] # p[j]
  /\ \A i \in 1..(Len(p) - 1) : Adjacent(a, p[i], p[i + 1])

----------------------------------------------------------------------------
\* Properties

\* C1: the sets connected_components() returns partition the node set: their
\* union is nodes(), they are pairwise disjoint, two nodes of one set are
\* mutually reachable and no node of one set is reachable from another set.
C1_ComponentsPartition ==
  last.op = "connected_components" =>
    LET cs == last.ret
    IN /\ UNION Range(cs) = nodes(adj)
       /\ \A i, j \in 1..Len(cs) : i # j => cs[i] \cap cs[j] = {}
       /\ \A i \in 1..Len(cs) : cs[i] # {}
       /\ \A i, j \in 1..Len(cs) : \A u \in cs[i], v \in cs[j] :
            (i = j) <=> (Reachable(adj, u, v) /\ Reachable(adj, v, u))
       /\ \A i, j \in 1..Len(cs) : \A u \in cs[i], v \in cs[j] :
            i # j => ~Reachable(adj, u, v)

\* Two components of two nodes each have been returned.
C1_Witness ==
  /\ last.op = "connected_components"
  /\ Len(last.ret) = 2
  /\ \A i \in 1..2 : Cardinality(last.ret[i]) = 2

\* C2: adjacency is symmetric in every state the edge list loading reaches:
\* v is in neighbors(u) if and only if u is in neighbors(v).
C2_Symmetric ==
  /\ \A u \in nodes(adj) : neighbors(adj, u) \subseteq nodes(adj)
  /\ \A u, v \in nodes(adj) : v \in neighbors(adj, u) <=> u \in neighbors(adj, v)

\* Three pairs have been loaded and some node has two neighbours besides
\* itself.
C2_Witness ==
  /\ calls = 3
  /\ \E u \in nodes(adj) : Cardinality(neighbors(adj, u) \ {u}) = 2

RECURSIVE Dedup(_, _)
\* The edge list with every pair dropped that repeats an earlier pair, in
\* either direction.
Dedup(es, seen) ==
  IF es = <<>> THEN <<>>
  ELSE LET e == {Head(es)[1], Head(es)[2]}
       IN IF e \in seen THEN Dedup(Tail(es), seen)
          ELSE <<Head(es)>> \o Dedup(Tail(es), seen \cup {e})

\* The edge lists of one, two or three pairs.
ShortEdgeLists ==
  LET P == Node \X Node
  IN {<<e>> : e \in P} \cup {<<e, f>> : e \in P, f \in P}
       \cup {<<e, f, g>> : e \in P, f \in P, g \in P}

\* C3: add_edge is idempotent: a call add_edge(u, v) or add_edge(v, u) with
\* edge {u, v} present leaves the node set, the adjacency relation,
\* node_count() and edge_count() unchanged; and an edge list with repeated
\* or reversed pairs builds, from the empty graph the loading starts with,
\* the graph its duplicate-free list builds.
C3_Idempotent ==
  [][ /\ \A u, v \in Node :
           (has_edge(adj, u, v) /\ (AddEdge(u, v) \/ AddEdge(v, u))) =>
             /\ nodes(adj') = nodes(adj)
             /\ adj' = adj
             /\ number_of_nodes(adj') = number_of_nodes(adj)
             /\ number_of_edges(adj') = number_of_edges(adj)
      /\ (calls = 0 /\ calls' = 1) =>
           \A es \in ShortEdgeLists :
             add_edges_from(adj, es) = add_edges_from(adj, Dedup(es, {})) ]_vars

\* More pairs have been loaded than there are edges: some call repeated an
\* edge that was present, and the node has kept its other neighbour.
C3_Witness ==
  /\ calls > number_of_edges(adj)
  /\ number_of_edges(adj) = 2
  /\ number_of_nodes(adj) = 3

\* C4: the derived counts agree with the adjacency structure: node_count()
\* is the number of distinct nodes (the endpoints of the loaded pairs),
\* edge_count() the number of distinct unordered adjacent pairs, and the
\* degrees sum to 2 * edge_count().
C4_CountsConsistent ==
  /\ number_of_nodes(adj) = Cardinality({u \in Node : \E v \in Node : Adjacent(adj, u, v)})
  /\ number_of_edges(adj) = Cardinality(EdgePairs(adj))
  /\ SumOver(degree_map(adj), nodes(adj)) = 2 * number_of_edges(adj)
  /\ last.op = "info" =>
       /\ last.n = Cardinality(nodes(adj))
       /\ last.m = Cardinality(EdgePairs(adj))
  /\ last.op = "degree" =>
       SumOver(last.ret, DOMAIN last.ret) = 2 * Cardinality(EdgePairs(adj))

\* The summary of a graph of four nodes and three edges has been printed.
C4_Witness == last.op = "info" /\ last.n = 4 /\ last.m = 3

\* C5: average_shortest_path_length() fails with the disconnected-graph
\* error whenever the graph has more than one component, and with exactly
\* one component returns the sum of d(i, j) over the ordered pairs i # j
\* divided by n(n-1).
C5_AverageOrFail ==
  last.op = "average_shortest_path_length" =>
    LET n == Cardinality(nodes(adj))
        total == SumOver([e \in nodes(adj) \X nodes(adj) |->
                            IF Reachable(adj, e[1], e[2]) THEN Distance(adj, e[1], e[2]) ELSE 0],
                         nodes(adj) \X nodes(adj))
    IN /\ NumComponents(adj) > 1 => last.err = "NetworkXError: Graph is not connected."
       /\ NumComponents(adj) = 1 =>
            /\ last.err = "none"
            /\ last.ret.num * (n * (n - 1)) = total * last.ret.den

\* C5 on the graphs without a self-loop, the graphs C7 says are the only
\* ones: there the statement holds.
C5_OnSimpleGraphs == Simple(adj) => C5_AverageOrFail

\* C6: for nodes u and v of the graph, shortest_path(u, v) fails with the
\* no-path error exactly when v is not reachable from u; otherwise it
\* returns a path from u to v (distinct nodes, consecutive ones adjacent)
\* and no path from u to v has fewer nodes.
C6_ShortestPath ==
  last.op = "shortest_path" =>
    LET u == last.source
        v == last.target
    IN /\ last.err \in {"none", "NetworkXNoPath"}
       /\ last.err = "NetworkXNoPath" <=> ~Reachable(adj, u, v)
       /\ last.err = "none" =>
            LET p == last.ret
            IN /\ Len(p) >= 1
               /\ p[1] = u /\ p[Len(p)] = v
               /\ IsPath(adj, p)
               /\ Len(p) = Distance(adj, u, v) + 1

\* A path of four nodes has been returned.
C6_Witness == last.op = "shortest_path" /\ last.err = "none" /\ Len(last.ret) = 4

\* C7: add_edge(u, u) is rejected and leaves the graph unchanged, so no node
\* is ever its own neighbour.
C7_SelfLoopRejected ==
  [][ /\ \A u \in Node : AddEdge(u, u) => adj' = adj
      /\ \A u \in nodes(adj') : u \notin neighbors(adj', u) ]_vars

\* C8: every node set find_cliques() produces is a clique (every two
\* distinct members are adjacent) and is maximal (no node outside it is
\* adjacent to all of its members).
C8_MaximalCliques ==
  last.op = "find_cliques" =>
    \A i \in 1..Len(last.ret) :
      LET c == Range(last.ret[i])
      IN /\ c # {} /\ c \subseteq nodes(adj)
         /\ \A u, v \in c : u # v => Adjacent(adj, u, v)
         /\ ~\E w \in nodes(adj) \ c : \A u \in c : Adjacent(adj, w, u)

\* A triangle and a clique of two nodes have been produced.
C8_Witness ==
  /\ last.op = "find_cliques"
  /\ \E i, j \in 1..Len(last.ret) :
       Cardinality(Range(last.ret[i])) = 3 /\ Cardinality(Range(last.ret[j])) = 2

\* C9: best_partition() returns a mapping whose domain is exactly the node
\* set of the original graph, one community label per node: every node has
\* a label, and the sets of nodes sharing a label partition the node set.
C9_PartitionCoversNodes ==
  last.op = "best_partition" =>
    LET part == last.ret
        labels == {part[n] : n \in DOMAIN part}
        members(c) == {n \in DOMAIN part : part[n] = c}
    IN /\ DOMAIN part = nodes(adj)
       /\ \A n \in nodes(adj) : part[n] \in Nat
       /\ UNION {members(c) : c \in labels} = nodes(adj)
       /\ \A c, d \in labels : c # d => members(c) \cap members(d) = {}

\* A partition has been returned that was unrolled from a contracted graph:
\* the dendrogram has two levels, and two nodes share a community.
C9_Witness ==
  /\ last.op = "best_partition"
  /\ number_of_edges(adj) > 0
  /\ Len(last.dendrogram) >= 2
  /\ \E u, v \in nodes(adj) : u # v /\ last.ret[u] = last.ret[v]

\* Every two distinct nodes are adjacent (and there are two to be adjacent).
Complete(a) ==
  /\ Cardinality(DOMAIN a) >= 2
  /\ \A u, v \in DOMAIN a : u # v => Adjacent(a, u, v)

\* C10: density() lies in [0, 1], is 1 if and only if the graph is complete,
\* is edge_count() / (node_count() * (node_count() - 1) / 2) when
\* node_count() >= 2 and 0 when node_count() < 2.
C10_Density ==
  last.op = "density" =>
    LET d == last.ret
        n == Cardinality(nodes(adj))
        m == Cardinality(EdgePairs(adj))
    IN /\ d.den > 0
       /\ 0 <= d.num /\ d.num <= d.den
       /\ d.num = d.den <=> Complete(adj)
       /\ n >= 2 => d.num * (n * (n - 1)) = 2 * m * d.den
       /\ n < 2 => d.num = 0

\* C10 on the graphs without a self-loop, the graphs C7 says are the only
\* ones: there the statement holds.
C10_OnSimpleGraphs == Simple(adj) => C10_Density

\* u is adjacent to every other node.
AdjacentToAll(a, u) == \A v \in DOMAIN a : v # u => Adjacent(a, u, v)

\* x <= 1.0
AtMostOne(x) == ~float_lt[float_of[1], x]

\* The double nearest to the fraction num / den of two whole numbers,
\* num >= 0 and den > 0: the quotient of two floats is rounded once.
Nearest(num, den) == float_div[float_of[num], float_of[den]]

\* |x - num / den| <= (t / 2^k) * (num / den) for the float x >= 0: with
\* x = man * 2^exp, both sides times den * 2^k and, when exp < 0, 2^-exp.
Within(x, num, den, t, k) ==
  LET L == limb_mul[limb_shl[x.man, IF x.exp > 0 THEN x.exp ELSE 0], limb_of[den]]
      R == limb_shl[limb_of[num], IF x.exp < 0 THEN -x.exp ELSE 0]
      diff == IF limb_cmp[L, R] >= 0 THEN limb_sub[L, R] ELSE limb_sub[R, L]
  IN /\ x.sign >= 0
     /\ limb_cmp[limb_shl[diff, k], limb_mul_small[R, t]] <= 0

\* C11: degree_centrality(u) lies in [0, 1] and is 1 if and only if u is
\* adjacent to every other node; it is degree(u) / (n - 1) when n > 1 and 0
\* when n <= 1.  The quotient is read as the double nearest to it.
C11_DegreeCentrality ==
  last.op = "degree_centrality" =>
    /\ last.err = "none"
    /\ DOMAIN last.ret = nodes(adj)
    /\ \A u \in nodes(adj) :
         LET c == last.ret[u]
             n == Cardinality(nodes(adj))
         IN /\ c.sign >= 0 /\ AtMostOne(c)
            /\ c = float_of[1] <=> AdjacentToAll(adj, u)
            /\ n > 1 => c = Nearest(Cardinality(neighbors(adj, u)), n - 1)
            /\ n <= 1 => c = float_zero

\* C11 on the graphs without a self-loop, the graphs C7 says are the only
\* ones: there the statement holds on the graphs of up to five nodes.  On
\* larger ones the two roundings of d * (1.0 / (n - 1.0)) show: node 1 of
\* 1-2, 1-3, 1-4, 5-6 scores 0.6000000000000001, and the center of a star of
\* 50 nodes 0.9999999999999999.
C11_OnSimpleGraphs == Simple(adj) => C11_DegreeCentrality

\* The sum of d(u, y) over the nodes y reachable from u.
SumDistances(a, u) ==
  LET R == {y \in DOMAIN a : Reachable(a, u, y)}
  IN SumOver([y \in R |-> Distance(a, u, y)], R)

\* The number of nodes reachable from u, u included.
ReachCount(a, u) == Cardinality({y \in DOMAIN a : Reachable(a, u, y)})

\* C12 as stated: closeness_centrality(u) is defined for every node of every
\* graph and equals (r - 1) / (sum of d(u, y) over the reachable y), the
\* double nearest to that quotient. Read on the graphs without a self-loop,
\* where every node reaches another one and the quotient is defined.
C12_Closeness ==
  (last.op = "closeness_centrality" /\ Simple(adj)) =>
    last.ret = Nearest(ReachCount(adj, last.u) - 1, SumDistances(adj, last.u))

\* C12, amended: closeness_centrality(u) is defined for every node of every
\* graph, connected or not; when u reaches no other node it is 0, and else
\* it is the product, computed in doubles, of the quotients
\* (r - 1) / (sum of d(u, y)) and (r - 1) / (n - 1), the second the fraction
\* of the other nodes that u reaches: each of the three operations is
\* rounded to the nearest double, so the value lies within a relative error
\* of 2^-51 of the exact product.
C12_ClosenessScaled ==
  last.op = "closeness_centrality" =>
    LET c == last.ret
        r == ReachCount(adj, last.u)
        n == Cardinality(nodes(adj))
        tot == SumDistances(adj, last.u)
    IN /\ r = 1 => c = float_zero
       /\ r > 1 => /\ c = float_mul[Nearest(r - 1, tot), Nearest(r - 1, n - 1)]
                   /\ Within(c, (r - 1) * (r - 1), tot * (n - 1), 1, 51)

\* A closeness was computed for a node that reaches some but not all of the
\* other nodes, where the scaling matters, and the roundings show: the value
\* is not the double nearest to the exact product.
C12_Witness ==
  /\ last.op = "closeness_centrality"
  /\ ReachCount(adj, last.u) > 1
  /\ ReachCount(adj, last.u) < Cardinality(nodes(adj))
  /\ last.ret # Nearest((ReachCount(adj, last.u) - 1) * (ReachCount(adj, last.u) - 1),
                        SumDistances(adj, last.u) * (Cardinality(nodes(adj)) - 1))

RECURSIVE NumShortest(_, _, _)
\* sigma_st: the number of shortest paths from s to t (t reachable from s).
NumShortest(a, s, t) ==
  IF s = t THEN 1
  ELSE LET before == {w \in DOMAIN a : /\ w # t
                                       /\ Adjacent(a, w, t)
                                       /\ Reachable(a, s, w)
                                       /\ Distance(a, s, w) + 1 = Distance(a, s, t)}
       IN SumOver([w \in before |-> NumShortest(a, s, w)], before)

\* sigma_st(x): the number of shortest paths from s to t that pass through x.
NumShortestThrough(a, s, t, x) ==
  IF /\ Reachable(a, s, x)
     /\ Distance(a, s, x) + Distance(a, x, t) = Distance(a, s, t)
  THEN NumShortest(a, s, x) * NumShortest(a, x, t)
  ELSE 0

RECURSIVE Gcd(_, _)
\* The greatest common divisor of x and y.
Gcd(x, y) == IF y = 0 THEN x ELSE Gcd(y, x % y)

\* The fraction n / d (d > 0, n >= 0) in lowest terms.
Lowest(n, d) == LET g == Gcd(n, d) IN Frac(n \div g, d \div g)

RECURSIVE FracSum(_, _)
\* The exact sum of the fractions f[e] over e in S.
FracSum(f, S) ==
  IF S = {} THEN Frac(0, 1)
  ELSE LET e == CHOOSE y \in S : TRUE
           rest == FracSum(f, S \ {e})
       IN Lowest(f[e].num * rest.den + rest.num * f[e].den, f[e].den * rest.den)

\* The sum over the unordered pairs {s, t} of distinct nodes other than x,
\* joined by some path, of sigma_st(x) / sigma_st: an exact fraction.
PairDependency(a, x) ==
  LET pairs == {e \in SUBSET (DOMAIN a \ {x}) :
                  /\ Cardinality(e) = 2
                  /\ \A s, t \in e : Reachable(a, s, t)}
      share(e) == LET s == Min(e)
                      t == CHOOSE y \in e : y # s
                  IN Lowest(NumShortestThrough(a, s, t, x), NumShortest(a, s, t))
  IN FracSum([e \in pairs |-> share(e)], pairs)

\* A star: c is joined to every other node, and the other nodes to c alone.
IsStar(a, c) ==
  /\ c \in DOMAIN a
  /\ Cardinality(DOMAIN a) >= 3
  /\ a[c] = DOMAIN a \ {c}
  /\ \A l \in DOMAIN a \ {c} : a[l] = {c}

\* What C13 says beside the value of a score: every node has a score in
\* [0, 1], 0 when fewer than three nodes leave no pair; on a star the center
\* has the maximum score and every leaf scores 0.
BetweennessRange ==
  /\ last.err = "none"
  /\ DOMAIN last.ret = nodes(adj)
  /\ \A x \in nodes(adj) :
       /\ last.ret[x].sign >= 0 /\ AtMostOne(last.ret[x])
       /\ Cardinality(nodes(adj)) <= 2 => last.ret[x] = float_zero
  /\ \A c \in nodes(adj) :
       IsStar(adj, c) =>
         \A l \in nodes(adj) \ {c} :
           /\ last.ret[l] = float_zero
           /\ float_lt[last.ret[l], last.ret[c]]

\* C13 as stated: without sampling, betweenness_centrality gives every node
\* x the sum over unordered pairs {s, t} (s, t, x distinct) of
\* sigma_st(x) / sigma_st divided by (n - 1)(n - 2) / 2, the double nearest
\* to that fraction, a value in [0, 1] (0 when fewer than three nodes leave
\* no such pair); on a star the center has the maximum score and every leaf
\* scores 0.
C13_Betweenness ==
  (last.op = "betweenness_centrality" /\ last.k = None) =>
    /\ BetweennessRange
    /\ \A x \in nodes(adj) :
         LET n == Cardinality(nodes(adj))
             total == PairDependency(adj, x)
         IN n >= 3 =>
              last.ret[x] = Nearest(2 * total.num, total.den * (n - 1) * (n - 2))

\* C13, amended: without sampling, betweenness_centrality gives every node x
\* that sum divided by (n - 1)(n - 2) / 2 up to the rounding of the double
\* arithmetic it is accumulated in: a value within a relative error of
\* (n + 2)^2 * 2^-52 of the fraction, in [0, 1], exactly 0 where the
\* fraction is 0 (and when fewer than three nodes leave no pair); on a star
\* the center has the maximum score and every leaf scores 0.
C13_BetweennessRounded ==
  (last.op = "betweenness_centrality" /\ last.k = None) =>
    /\ BetweennessRange
    /\ \A x \in nodes(adj) :
         LET n == Cardinality(nodes(adj))
             total == PairDependency(adj, x)
         IN n >= 3 =>
              Within(last.ret[x], 2 * total.num, total.den * (n - 1) * (n - 2),
                     (n + 2) * (n + 2), 52)

\* The betweenness was computed from every source and the roundings show:
\* some node has a score that is not the double nearest to its fraction.
C13_Witness ==
  /\ last.op = "betweenness_centrality"
  /\ last.k = None
  /\ last.err = "none"
  /\ \E x \in nodes(adj) :
       LET n == Cardinality(nodes(adj))
           total == PairDependency(adj, x)
       IN /\ n >= 3
          /\ last.ret[x] # Nearest(2 * total.num, total.den * (n - 1) * (n - 2))

\* The maximal cliques: the non-empty node sets whose members are pairwise
\* adjacent and that no further node is adjacent to all of.
MaximalCliques(a) ==
  {S \in SUBSET (DOMAIN a) :
     /\ S # {}
     /\ \A u, v \in S : u # v => Adjacent(a, u, v)
     /\ \A w \in DOMAIN a \ S : \E u \in S : ~Adjacent(a, u, w)}

\* C16: find_cliques() is complete and duplicate-free: every maximal clique
\* of the graph appears in the sequence exactly once as a node set, so the
\* length is the number of maximal cliques and every node lies in a produced
\* clique; the empty graph yields the empty sequence.
C16_CliquesComplete ==
  last.op = "find_cliques" =>
    LET out == last.ret
    IN /\ {Range(out[i]) : i \in 1..Len(out)} = MaximalCliques(adj)
       /\ \A i, j \in 1..Len(out) : i # j => Range(out[i]) # Range(out[j])
       /\ Len(out) = Cardinality(MaximalCliques(adj))
       /\ \A i \in 1..Len(out) : Len(out[i]) = Cardinality(Range(out[i]))
       /\ \A u \in nodes(adj) : \E i \in 1..Len(out) : u \in Range(out[i])
       /\ nodes(adj) = {} => out = <<>>

\* The cliques of a graph with at least three maximal cliques, two of them
\* sharing a node, were enumerated.
C16_Witness ==
  /\ last.op = "find_cliques"
  /\ Len(last.ret) >= 3
  /\ \E i, j \in 1..Len(last.ret) :
       i # j /\ Range(last.ret[i]) \cap Range(last.ret[j]) # {}

C14_FailedCall ==
  /\ last.op = "neighbors"
  /\ last.err = "NetworkXError"
  /\ number_of_edges(adj) > 0

\* C15: best_partition() terminates on every finite graph: a call that has
\* started its passes and contractions eventually returns a mapping, and
\* until then it has kept no more levels than the graph has nodes (the
\* first level is always kept, and a later one only when a pass of it has
\* merged two communities, of which there are ever fewer).
C15_Terminates ==
  /\ (last.op = "louvain") ~> (last.op = "best_partition")
  /\ [](last.op = "louvain" => Len(last.status_list) <= number_of_nodes(adj))

\* A call that went through two levels of contraction has returned, with the
\* mapping the loops of best_partition compute.
C15_Witness ==
  /\ last.op = "best_partition"
  /\ Len(last.dendrogram) >= 2
  /\ last.dendrogram \in dendrograms(adj)
  /\ last.ret = partition_at_level(last.dendrogram)

\* The stepwise call returns what the loops of best_partition compute.
C15_SameResult ==
  last.op = "best_partition" =>
    /\ last.dendrogram \in dendrograms(adj)
    /\ last.ret = partition_at_level(last.dendrogram)


====
